---- MODULE Spec2Model ----
(***************************************************************************)
(* Model of ImageProcessor (src/app.js): the batch state (images,          *)
(* processedData), the user event handlers bound in bindEvents, and the    *)
(* asynchronous run processWithVision with its calls to extractMetadata,   *)
(* analyzeVision and imageToBase64.                                        *)
(*                                                                         *)
(* JavaScript runs one handler or one continuation of an async function at *)
(* a time; code between two awaits is atomic.  Every action below is one   *)
(* such block: a user event handler, or the resumption of a run from the   *)
(* await it is suspended at up to the next await it reaches.               *)
(*                                                                         *)
(* Strings are sequences of one-character strings, so that trim,           *)
(* startsWith, split, toLowerCase, substring and join are computed.        *)
(* Array indices are 0-based as in the source; TLA+ sequences are 1-based, *)
(* so images[i] of the source is images[i + 1] here.                       *)
(***************************************************************************)
EXTENDS Integers, Sequences, FiniteSets, TLC

(***************************************************************************)
(* Bounds of the model                                                     *)
(***************************************************************************)
\* longest file list a user selects or drops in one gesture
MaxFiles == 2
\* number of user gestures (drop, file selection, clear, process click)
MaxEvents == 3
\* the longest path given to getCategoryFromPath on its own
MaxPathLen == 4
\* the longest list of labels a response carries
MaxLabels == 2
\* the longest best-guess text exceeds the 100 characters kept by this much
MaxExcess == 2

(***************************************************************************)
(* Program constants                                                       *)
(***************************************************************************)
MAX_FILE_SIZE_MB == 5
BytesPerMB == 1024 * 1024
DescriptionLimit == 100
\* label scores are modelled in thousandths: 0.6 is 600
ScoreThreshold == 600

(***************************************************************************)
(* JavaScript values                                                       *)
(***************************************************************************)
\* undefined, where a string is expected: an absent property (no string of
\* the model has an element of more than one character)
Undefined == << "undefined" >>

EmptyString == << >>

\* truthiness of a value that is a string or undefined
Truthy(v) == v # Undefined /\ v # EmptyString

\* a || b
Or(a, b) == IF Truthy(a) THEN a ELSE b

UpperChars ==
  << "A", "B", "C", "D", "E", "F", "G", "H", "I", "J", "K", "L", "M",
     "N", "O", "P", "Q", "R", "S", "T", "U", "V", "W", "X", "Y", "Z" >>

LowerChars ==
  << "a", "b", "c", "d", "e", "f", "g", "h", "i", "j", "k", "l", "m",
     "n", "o", "p", "q", "r", "s", "t", "u", "v", "w", "x", "y", "z" >>

DigitChars == << "0", "1", "2", "3", "4", "5", "6", "7", "8", "9" >>

Range(s) == { s[k] : k \in 1..Len(s) }

WhiteSpace == { " ", "\t", "\n", "\r" }

\* the class \w of a regular expression
WordChars == Range(UpperChars) \cup Range(LowerChars) \cup Range(DigitChars) \cup { "_" }

charToLowerCase(c) ==
  IF c \in Range(UpperChars)
    THEN LowerChars[CHOOSE k \in 1..Len(UpperChars) : UpperChars[k] = c]
    ELSE c

\* String.prototype.toLowerCase
toLowerCase(s) == [k \in 1..Len(s) |-> charToLowerCase(s[k])]

\* String.prototype.trim
RECURSIVE trimStart(_)
trimStart(s) ==
  IF s # << >> /\ Head(s) \in WhiteSpace THEN trimStart(Tail(s)) ELSE s

RECURSIVE trimEnd(_)
trimEnd(s) ==
  IF s # << >> /\ s[Len(s)] \in WhiteSpace
    THEN trimEnd(SubSeq(s, 1, Len(s) - 1))
    ELSE s

trim(s) == trimEnd(trimStart(s))

\* String.prototype.startsWith
startsWith(s, prefix) ==
  Len(s) >= Len(prefix) /\ SubSeq(s, 1, Len(prefix)) = prefix

\* the truncation as it would be with a mark appended to a cut text
substring0Marked(s, n) ==
  IF Len(s) <= n THEN s ELSE SubSeq(s, 1, n) \o << ".", ".", "." >>

\* String.prototype.substring(0, n)
substring0(s, n) == SubSeq(s, 1, IF Len(s) < n THEN Len(s) ELSE n)

\* the path as it would be without the replacement
replaceNothing(s) == s

\* path.replace(/\\/g, "/")
replaceBackslashes(s) == [k \in 1..Len(s) |-> IF s[k] = "\\" THEN "/" ELSE s[k]]

\* String.prototype.split("/"): always at least one part
RECURSIVE split(_)
split(s) ==
  IF \A k \in 1..Len(s) : s[k] # "/"
    THEN << s >>
    ELSE LET p == CHOOSE k \in 1..Len(s) :
                    s[k] = "/" /\ \A j \in 1..(k - 1) : s[j] # "/"
         IN  << SubSeq(s, 1, p - 1) >> \o split(SubSeq(s, p + 1, Len(s)))

\* Array.prototype.join(", ")
RECURSIVE join(_)
join(parts) ==
  IF parts = << >> THEN << >>
  ELSE IF Len(parts) = 1 THEN parts[1]
  ELSE parts[1] \o << ",", " " >> \o join(Tail(parts))

\* Error.prototype.toString, the result of String(e) for an Error object
ErrorToString(e) ==
  IF e.message = EmptyString THEN e.name
  ELSE IF e.name = EmptyString THEN e.message
  ELSE e.name \o << ":", " " >> \o e.message

(***************************************************************************)
(* The files a user can select and what the environment answers for each.  *)
(* A file's "world" field gives the ways its read, its request and the     *)
(* parsing of the response can turn out, and the response.  Where each is  *)
(* a single way the file always gets the same analysis.                    *)
(***************************************************************************)
Str_cat == << "c", "a", "t", ".", "j", "p", "g" >>
Str_imagePng == << "i", "m", "a", "g", "e", "/", "p", "n", "g" >>
Str_textPlain == << "t", "e", "x", "t", "/", "p", "l", "a", "i", "n" >>
Str_image == << "i", "m", "a", "g", "e" >>
Str_Cat == << "C", "a", "t" >>
Str_Animal == << "A", "n", "i", "m", "a", "l" >>
Str_guess == << "A", " ", "c", "a", "t" >>
Str_path == << "P", "e", "t", "s", "/", "c", "a", "t", ".", "j", "p", "g" >>
Str_denied == << "d", "e", "n", "i", "e", "d" >>
Str_OK == << "O", "K" >>
Str_Forbidden == << "F", "o", "r", "b", "i", "d", "d", "e", "n" >>
Str_Desconocido == << "D", "e", "s", "c", "o", "n", "o", "c", "i", "d", "o" >>
Str_API == << "A", "P", "I", ":", " " >>
Str_LecturaFallida == << "L", "e", "c", "t", "u", "r", "a", " ", "f", "a", "l", "l", "i", "d", "a" >>
Str_Error == << "E", "r", "r", "o", "r" >>
Str_TypeError == << "T", "y", "p", "e", "E", "r", "r", "o", "r" >>
Str_SyntaxError == << "S", "y", "n", "t", "a", "x", "E", "r", "r", "o", "r" >>
Str_FailedToFetch == << "F", "a", "i", "l", "e", "d" >>
Str_UnexpectedToken == << "U", "n", "e", "x", "p", "e", "c", "t", "e", "d" >>
Str_CannotRead == << "C", "a", "n", "n", "o", "t", " ", "r", "e", "a", "d" >>

\* what FileReader, fetch and the service do for a file that is analysed
\* without any failure: two labels (one above, one below the threshold) and
\* a best-guess label
WorldOk ==
  [ read       |-> { "load" },        \* FileReader: "load", "error"
    fetch      |-> { "resolve" },     \* fetch: "resolve", "reject"
    fetchError |-> [name |-> Str_TypeError, message |-> Str_FailedToFetch],
    json       |-> { "valid" },       \* response.json(): "valid", "invalid",
                                      \* "null" (the body is the JSON null)
    jsonError  |-> [name |-> Str_SyntaxError, message |-> Str_UnexpectedToken],
    ok         |-> TRUE,              \* response.ok
    statusText |-> Str_OK,            \* response.statusText
    \* respJson.error: whether the body has the field, and its message
    error      |-> [present |-> FALSE, message |-> Undefined],
    \* responses[0].labelAnnotations; an absent list is the empty list, the
    \* two are not told apart by "|| []"; scored says whether the label
    \* has a score field
    labelAnnotations |->
      << [description |-> Str_Cat, scored |-> TRUE, score |-> 900],
         [description |-> Str_Animal, scored |-> TRUE, score |-> 500] >>,
    bestGuess  |-> Str_guess,         \* ...bestGuessLabels[0].label
    dimensions |-> TRUE ]             \* whether the image's dimensions can be probed

FileOk ==
  [ name  |-> << "a" >>,
    type  |-> Str_imagePng,
    size  |-> 1000,
    path  |-> Str_path,
    world |-> WorldOk ]

\* any step of the analysis may fail or not; when none fails the response
\* has no label and no best guess; the dimensions cannot be probed
FileFlaky ==
  [ FileOk EXCEPT !.name = << "f" >>, !.path = Str_cat,
      !.world = [ WorldOk EXCEPT !.read = { "load", "error" },
                                 !.fetch = { "resolve", "reject" },
                                 !.json = { "valid", "invalid" },
                                 !.labelAnnotations = << >>,
                                 !.bestGuess = Undefined,
                                 !.dimensions = FALSE ] ]

\* analysed without failure; the response has a label above the threshold
\* that carries no description text
FileNoText ==
  [ FileOk EXCEPT !.name = << "n" >>,
      !.world = [ WorldOk EXCEPT !.labelAnnotations =
                    << [description |-> Undefined, scored |-> TRUE, score |-> 900] >> ] ]

\* cannot be read by FileReader
FileUnreadable ==
  [ FileOk EXCEPT !.name = << "u" >>,
      !.world = [ WorldOk EXCEPT !.read = { "error" } ] ]

\* the service answers 403 with an error object
FileDenied ==
  [ FileOk EXCEPT !.name = << "d" >>,
      !.world = [ WorldOk EXCEPT !.ok = FALSE, !.statusText = Str_Forbidden,
                                 !.error = [present |-> TRUE, message |-> Str_denied] ] ]

\* one byte above the size limit
FileTooBig ==
  [ FileOk EXCEPT !.name = << "x" >>,
      !.size = MAX_FILE_SIZE_MB * BytesPerMB + 1 ]

\* exactly at the size limit
FileAtLimit ==
  [ FileOk EXCEPT !.name = << "l" >>,
      !.size = MAX_FILE_SIZE_MB * BytesPerMB ]

\* not an image
FileText ==
  [ FileOk EXCEPT !.name = << "t" >>, !.type = Str_textPlain ]

\* the files a user selects from while no run is suspended
SeqFiles == { FileOk, FileNoText, FileUnreadable, FileDenied, FileFlaky }

\* the files a user selects from where gestures interleave with runs
FewFiles == { FileOk, FileFlaky, FileTooBig, FileText }

\* a file whose analysis can turn out in one way only
Deterministic(f) ==
  /\ Cardinality(f.world.read) = 1
  /\ Cardinality(f.world.fetch) = 1
  /\ Cardinality(f.world.json) = 1

\* the file lists of at most MaxFiles distinct files taken from pool
FileLists(pool) ==
  { fs \in UNION { [1..n -> pool] : n \in 0..MaxFiles } :
      \A j, k \in 1..Len(fs) : j # k => fs[j] # fs[k] }

FewLists == FileLists(FewFiles)

SeqLists == FileLists(SeqFiles)

\* the texts the API key field can hold when the process button is clicked
KeyValues == { << >>, << " " >>, << " ", "k", "\t" >> }

(***************************************************************************)
(* State                                                                   *)
(***************************************************************************)
VARIABLES
  images,        \* this.images: the files of the current batch
  processedData, \* this.processedData: the records accumulated so far; each
                 \* entry is [meta, run, item]: the pushed object and, as
                 \* history, the run and the index that pushed it
  runs,          \* the executions of processWithVision started so far, in
                 \* start order: [pc, i, apiKey, file, meta] and, as
                 \* history: the number of calls of fetch made by the
                 \* latest call of analyzeVision and the way that call
                 \* completed (requests, vision),
                 \* the names of the images at the call (batch),
                 \* the calls of updateProgress and of alert that the
                 \* execution made, in order (progress, alerts), and the
                 \* records that processedData held when it completed
                 \* (records)
  alerts,        \* history of the calls of alert made by the handlers: how
                 \* many times each message was shown
  status,        \* the status shown for each item of the preview grid
  nEvents,       \* number of user gestures so far
  trial          \* one application of a function or of prepareFiles to a
                 \* chosen input: [op, input, applied, output]; NoTrial
                 \* where the user's gestures drive the program

vars == << images, processedData, runs, alerts, status, nEvents, trial >>

\* the part of the state a handler reads and writes, as one value, so that
\* the statements of a handler compose
Cur ==
  [ images |-> images, processedData |-> processedData, runs |-> runs,
    alerts |-> alerts, status |-> status ]

Becomes(st) ==
  /\ images' = st.images
  /\ processedData' = st.processedData
  /\ runs' = st.runs
  /\ alerts' = st.alerts
  /\ status' = st.status

\* the positions at which a run is suspended, and its two ends
AwaitVision == { "awaitRead", "awaitFetch", "awaitJson" }
Suspended == { "awaitMeta", "awaitDelay" } \cup AwaitVision
Ended == { "done", "rejected" }

\* no function is applied on its own
NoTrial == [ op |-> "none", input |-> << >>, applied |-> FALSE, output |-> << >> ]

\* the value of "file" and "meta" before the first assignment
NoFile == [ FileOk EXCEPT !.name = Undefined ]
NoMeta ==
  [ name |-> Undefined, path |-> Undefined, size |-> 0, width |-> 0, height |-> 0,
    description |-> Undefined, category_slug |-> Undefined, tags |-> Undefined ]

(***************************************************************************)
(* Collaborators whose code is not in src/app.js (line 206)                *)
(***************************************************************************)
\* the messages of the handlers, named by their call site
AlertKinds == { "oversized", "noImages", "noKey" }

\* alert(message) called by a handler: kind names the call site
alert(st, kind) == [ st EXCEPT !.alerts[kind] = @ + 1 ]

\* alert(message) called by run r while it processes item i: kind names the
\* call site, detail is the variable text of the message
runAlert(st, r, kind, i, detail) ==
  [ st EXCEPT !.runs[r].alerts =
      Append(@, [kind |-> kind, item |-> i, detail |-> detail]) ]

\* updateProgress(percent, text) called by run r: the percentage is the
\* exact fraction num / den; label tells the two texts apart
updateProgress(st, r, num, den, label) ==
  [ st EXCEPT !.runs[r].progress =
      Append(@, [num |-> num, den |-> den, label |-> label]) ]

\* updateItemStatus(i, s): sets the status of grid item i, when there is one
updateItemStatus(st, i, s) ==
  IF i < Len(st.status) THEN [ st EXCEPT !.status[i + 1] = s ] ELSE st

\* showPreview(): draws one pending grid item per image
showPreview(st) ==
  [ st EXCEPT !.status = [k \in 1..Len(st.images) |-> "pending"] ]

\* extractMetadata(file): resolves to the file's name, path, size and
\* dimensions; dimensions that cannot be probed are 0
extractMetadata(file) ==
  [ NoMeta EXCEPT !.name = file.name, !.path = file.path, !.size = file.size,
                  !.width = IF file.world.dimensions THEN 640 ELSE 0,
                  !.height = IF file.world.dimensions THEN 480 ELSE 0 ]

\* clearAll(): empties both collections and the grid
clearAll(st) ==
  [ st EXCEPT !.images = << >>, !.processedData = << >>, !.status = << >> ]

(***************************************************************************)
(* prepareFiles, getCategoryFromPath                                       *)
(***************************************************************************)
\* f.size / (1024 * 1024) > MAX_FILE_SIZE_MB; the division by a power of two
\* is exact, so the comparison is the one of the byte counts
Oversized(f) == f.size > MAX_FILE_SIZE_MB * BytesPerMB

\* the second filter as it would be with < in place of <=
WithinLimitStrict(f) == f.size < MAX_FILE_SIZE_MB * BytesPerMB

\* f.size / (1024 * 1024) <= MAX_FILE_SIZE_MB
WithinLimit(f) == f.size <= MAX_FILE_SIZE_MB * BytesPerMB

\* the body of prepareFiles as it would be without line 104
prepareFilesKeepingRecords(st, files) ==
  LET oversized == SelectSeq(files, Oversized)
      st1 == IF Len(oversized) # 0
               THEN alert(st, "oversized")
               ELSE st
      kept == SelectSeq(files, WithinLimit)
      st2 == [ st1 EXCEPT !.images = kept ]
  IN  showPreview(st2)

prepareFiles(st, files) ==
  LET oversized == SelectSeq(files, Oversized)
      st1 == IF Len(oversized) # 0
               THEN alert(st, "oversized")
               ELSE st
      kept == SelectSeq(files, WithinLimit)
      st2 == [ st1 EXCEPT !.images = kept, !.processedData = << >> ]
  IN  showPreview(st2)

\* /^[\w-]+$/.test(slug)
IsSlug(slug) ==
  /\ Len(slug) >= 1
  /\ \A k \in 1..Len(slug) : slug[k] \in WordChars \cup { "-" }

getCategoryFromPath(path) ==
  IF ~Truthy(path) THEN EmptyString
  ELSE LET parts == split(replaceBackslashes(path))
       IN  IF Len(parts) >= 2
             THEN LET slug == parts[Len(parts) - 1]
                  IN  IF IsSlug(slug) THEN toLowerCase(slug) ELSE EmptyString
             ELSE EmptyString

(***************************************************************************)
(* analyzeVision: the result it returns                                    *)
(***************************************************************************)
\* the result of the catch block as it would be without "|| String(e)"
catchResultMessageOnly(e) ==
  [ labels |-> << >>, description |-> EmptyString, error |-> e.message ]

\* the catch block: e.message || String(e)
catchResult(e) ==
  [ labels |-> << >>, description |-> EmptyString,
    error |-> Or(e.message, ErrorToString(e)) ]

\* the rejection of imageToBase64
ReadError == [ name |-> Str_Error, message |-> Str_LecturaFallida ]

\* respJson.error where respJson is null
NullDeref == [ name |-> Str_TypeError, message |-> Str_CannotRead ]

\* the value of "vision" and of the caught error where there is none
NoResult == [ labels |-> << >>, description |-> EmptyString, error |-> Undefined ]
NoError == [ name |-> Undefined, message |-> Undefined ]

\* the two ways a block or a call completes
returned(v) == [ threw |-> FALSE, value |-> v, error |-> NoError ]
thrown(e) == [ threw |-> TRUE, value |-> NoResult, error |-> e ]

\* the call as it would complete without the catch block
catchBlockRethrows(c) == c

\* try { ... } catch (e) { ...; return { ..., error } }: c is the way the
\* try block completes
catchBlock(c) == IF c.threw THEN returned(catchResult(c.error)) ELSE c

\* the call of fetch as it would be repeated once
issueRequestTwice(n) == n + 2

\* the call of fetch: n requests were issued before
issueRequest(n) == n + 1

\* analyzeVision before it has completed
NoVision == [ settled |-> FALSE, threw |-> FALSE, result |-> NoResult ]

\* the classification as it would be if the error result kept the labels
\* and the best guess of the response
classifyResponseKeeping(w) ==
  [ labels |-> w.labelAnnotations,
    description |-> Or(w.bestGuess, EmptyString),
    error |-> IF ~w.ok \/ w.error.present
                THEN Str_API \o Or(Or(IF w.error.present THEN w.error.message
                                                         ELSE Undefined,
                                      w.statusText),
                                   Str_Desconocido)
                ELSE Undefined ]

\* what follows "await response.json()" for a parsed body that is an object
classifyResponse(w) ==
  IF ~w.ok \/ w.error.present
    THEN LET errorMsg ==
               Or(Or(IF w.error.present THEN w.error.message ELSE Undefined,
                     w.statusText),
                  Str_Desconocido)
         IN  [ labels |-> << >>, description |-> EmptyString,
               error |-> Str_API \o errorMsg ]
    ELSE [ labels |-> w.labelAnnotations,
           description |-> Or(w.bestGuess, EmptyString),
           error |-> Undefined ]

\* the result analyzeVision returns for a file whose analysis can turn out
\* in one way only
analysisOf(f) ==
  IF "error" \in f.world.read THEN catchResult(ReadError)
  ELSE IF "reject" \in f.world.fetch THEN catchResult(f.world.fetchError)
  ELSE IF "invalid" \in f.world.json THEN catchResult(f.world.jsonError)
  ELSE IF "null" \in f.world.json THEN catchResult(NullDeref)
  ELSE classifyResponse(f.world)

\* the rest of the try block for a parsed body: parsed is "valid" for an
\* object and "null" for null, whose property "error" cannot be read
tryResponse(w, parsed) ==
  IF parsed = "null" THEN thrown(NullDeref) ELSE returned(classifyResponse(w))

(***************************************************************************)
(* processWithVision                                                       *)
(***************************************************************************)
\* the increment as a loop that skips every other item would have it
NextIndexSkipping(i) == i + 2

\* i++
NextIndex(i) == i + 1

\* the test as it would be with >= in place of >
ScoreAtLeast(l) == l.scored /\ l.score # 0 /\ l.score >= ScoreThreshold

\* l.score && l.score > 0.6
ScoreAbove(l) == l.scored /\ l.score # 0 /\ l.score > ScoreThreshold

\* labels.filter(...) when labels is non-empty, [] otherwise
TaggedLabels(labels) ==
  IF Len(labels) # 0 THEN SelectSeq(labels, ScoreAbove) ELSE << >>

\* l.description.toLowerCase() throws a TypeError when a label that passed
\* the filter has no description
BuildThrows(vision) ==
  \E k \in 1..Len(TaggedLabels(vision.labels)) :
    TaggedLabels(vision.labels)[k].description = Undefined

\* the record built from meta and a result without error
buildRecord(meta, vision) ==
  LET kept == TaggedLabels(vision.labels)
      tags == [k \in 1..Len(kept) |-> toLowerCase(kept[k].description)]
  IN  [ meta EXCEPT
          !.description =
            IF Truthy(vision.description)
              THEN substring0(vision.description, DescriptionLimit)
              ELSE EmptyString,
          !.category_slug = getCategoryFromPath(meta.path),
          !.tags = IF Len(tags) # 0
                     THEN << "\"" >> \o join(tags) \o << "\"" >>
                     ELSE EmptyString ]

\* the names of the files of a list
FileNames(fs) == [k \in 1..Len(fs) |-> fs[k].name]

\* the objects held by a record collection
Metas(data) == [k \in 1..Len(data) |-> data[k].meta]

\* the head of the for loop: the test, and either the start of item i
\* (up to the suspension in extractMetadata) or the statements after the loop
loopHead(st, r) ==
  LET i == st.runs[r].i
      n == Len(st.images)
  IN  IF i < n
        THEN LET file == st.images[i + 1]
                 st1 == updateProgress(st, r, (i + 1) * 100, n, "Procesando")
             IN  [ st1 EXCEPT !.runs[r].file = file,
                              !.runs[r].meta = NoMeta,
                              !.runs[r].pc = "awaitMeta" ]
        ELSE LET st1 == updateProgress(st, r, 100, 1, "completado")
             IN  [ st1 EXCEPT !.runs[r].pc = "done",
                              !.runs[r].records = Metas(st.processedData) ]

\* the end of an iteration: the increment and the next loop head
nextIteration(st, r) ==
  loopHead([ st EXCEPT !.runs[r].i = NextIndex(@) ], r)

\* the end of the loop body as it would be without the delay
afterRecordNoDelay(st, r) ==
  nextIteration(updateItemStatus(st, st.runs[r].i, "completed"), r)

\* what follows a pushed record: the status update and the suspension
\* in the delay
afterRecord(st, r) ==
  [ updateItemStatus(st, st.runs[r].i, "completed")
      EXCEPT !.runs[r].pc = "awaitDelay" ]

\* the error branch: alert, status, continue
errorBranch(st, r, vision) ==
  LET i == st.runs[r].i
      st1 == runAlert(st, r, "processing", i, vision.error)
      st2 == updateItemStatus(st1, i, "error")
  IN  nextIteration(st2, r)

\* the loop body from the result of analyzeVision on
afterVision(st, r, vision) ==
  IF Truthy(vision.error)
    THEN errorBranch(st, r, vision)
    ELSE IF BuildThrows(vision)
      THEN [ st EXCEPT !.runs[r].pc = "rejected" ]
      ELSE LET meta == buildRecord(st.runs[r].meta, vision)
               st1 == [ st EXCEPT
                          !.runs[r].meta = meta,
                          !.processedData =
                            Append(@, [meta |-> meta, run |-> r,
                                       item |-> st.runs[r].i]) ]
           IN  afterRecord(st1, r)

\* "await analyzeVision(file, apiKey)" resumes: c is the way the call
\* completed; a thrown error rejects processWithVision
resumeVision(st, r, c) ==
  LET st1 == [ st EXCEPT !.runs[r].vision =
                 [ settled |-> TRUE, threw |-> c.threw, result |-> c.value ] ]
  IN  IF c.threw
        THEN [ st1 EXCEPT !.runs[r].pc = "rejected" ]
        ELSE afterVision(st1, r, c.value)

\* the call: a new execution that runs up to its first suspension
processWithVision(st, apiKey) ==
  LET r == Len(st.runs) + 1
      st1 == [ st EXCEPT !.runs =
                 Append(@, [ pc |-> "start", i |-> 0, apiKey |-> apiKey,
                             file |-> NoFile, meta |-> NoMeta,
                             requests |-> 0, vision |-> NoVision,
                             batch |-> FileNames(st.images), records |-> << >>,
                             progress |-> << >>, alerts |-> << >> ]) ]
  IN  loopHead(st1, r)

(***************************************************************************)
(* Initial state: the constructor                                          *)
(***************************************************************************)
Init ==
  /\ images = << >>
  /\ processedData = << >>
  /\ runs = << >>
  /\ alerts = [kind \in AlertKinds |-> 0]
  /\ status = << >>
  /\ nEvents = 0
  /\ trial = NoTrial

(***************************************************************************)
(* User gestures: the handlers of bindEvents                               *)
(***************************************************************************)
\* f.type.startsWith("image")
IsImage(f) == startsWith(f.type, Str_image)

\* the "drop" handler of the drop zone and the "change" handler of the file
\* input: the same statements on the state modelled here
selectFiles(st, dropped) ==
  LET files == SelectSeq(dropped, IsImage)
  IN  IF Len(files) # 0 THEN prepareFiles(st, files) ELSE st

\* a drop or a selection of the user
SelectFiles(dropped) ==
  /\ nEvents < MaxEvents
  /\ nEvents' = nEvents + 1
  /\ Becomes(selectFiles(Cur, dropped))
  /\ UNCHANGED trial

\* the "click" handler of the clear button
ClearClick ==
  /\ nEvents < MaxEvents
  /\ nEvents' = nEvents + 1
  /\ Becomes(clearAll(Cur))
  /\ UNCHANGED trial

\* the key as it would be without the call of trim
keyOfUntrimmed(value) == value

\* this.visionApiKey.value.trim()
keyOf(value) == trim(value)

\* the body of the "click" handler of the process button; value is the text
\* of the key field
processClick(st, value) ==
  IF Len(st.images) = 0
    THEN alert(st, "noImages")
    ELSE LET key == keyOf(value)
         IN  IF ~Truthy(key)
               THEN alert(st, "noKey")
               ELSE processWithVision(st, key)

\* the "click" handler of the process button, for each text the key field
\* can hold at that time
ProcessClick(value) ==
  /\ nEvents < MaxEvents
  /\ nEvents' = nEvents + 1
  /\ Becomes(processClick(Cur, value))
  /\ UNCHANGED trial

(***************************************************************************)
(* Resumptions of a run                                                    *)
(***************************************************************************)
IsRun(r) == r \in 1..Len(runs)

\* extractMetadata settles; analyzeVision is called and suspends in
\* imageToBase64
MetaResolves(r) ==
  /\ IsRun(r)
  /\ runs[r].pc = "awaitMeta"
  /\ Becomes([ Cur EXCEPT !.runs[r].meta = extractMetadata(runs[r].file),
                          !.runs[r].requests = 0,
                          !.runs[r].vision = NoVision,
                          !.runs[r].pc = "awaitRead" ])
  /\ UNCHANGED << nEvents, trial >>

\* reader.onload: the encoding resolves and the request is issued
ReaderLoads(r) ==
  /\ IsRun(r)
  /\ runs[r].pc = "awaitRead"
  /\ "load" \in runs[r].file.world.read
  /\ Becomes([ Cur EXCEPT !.runs[r].requests = issueRequest(@),
                          !.runs[r].pc = "awaitFetch" ])
  /\ UNCHANGED << nEvents, trial >>

\* reader.onerror: alert, reject; analyzeVision catches and returns, and
\* processWithVision goes on with the result
ReaderErrors(r) ==
  /\ IsRun(r)
  /\ runs[r].pc = "awaitRead"
  /\ "error" \in runs[r].file.world.read
  /\ LET st1 == runAlert(Cur, r, "reading", runs[r].i, runs[r].file.name)
     IN  Becomes(resumeVision(st1, r, catchBlock(thrown(ReadError))))
  /\ UNCHANGED << nEvents, trial >>

\* fetch resolves with a response; response.json() is called
FetchResolves(r) ==
  /\ IsRun(r)
  /\ runs[r].pc = "awaitFetch"
  /\ "resolve" \in runs[r].file.world.fetch
  /\ Becomes([ Cur EXCEPT !.runs[r].pc = "awaitJson" ])
  /\ UNCHANGED << nEvents, trial >>

\* fetch rejects
FetchRejects(r) ==
  /\ IsRun(r)
  /\ runs[r].pc = "awaitFetch"
  /\ "reject" \in runs[r].file.world.fetch
  /\ Becomes(resumeVision(Cur, r, catchBlock(thrown(runs[r].file.world.fetchError))))
  /\ UNCHANGED << nEvents, trial >>

\* response.json() resolves with the parsed body
JsonResolves(r) ==
  /\ IsRun(r)
  /\ runs[r].pc = "awaitJson"
  /\ \E parsed \in runs[r].file.world.json \cap { "valid", "null" } :
       Becomes(resumeVision(Cur, r, catchBlock(tryResponse(runs[r].file.world, parsed))))
  /\ UNCHANGED << nEvents, trial >>

\* response.json() rejects
JsonRejects(r) ==
  /\ IsRun(r)
  /\ runs[r].pc = "awaitJson"
  /\ "invalid" \in runs[r].file.world.json
  /\ Becomes(resumeVision(Cur, r, catchBlock(thrown(runs[r].file.world.jsonError))))
  /\ UNCHANGED << nEvents, trial >>

\* the timer of the delay fires
DelayElapses(r) ==
  /\ IsRun(r)
  /\ runs[r].pc = "awaitDelay"
  /\ Becomes(nextIteration(Cur, r))
  /\ UNCHANGED << nEvents, trial >>

RunIds == 1..(MaxEvents + 1)

RunStep ==
  \E r \in RunIds :
    \/ MetaResolves(r)
    \/ ReaderLoads(r)
    \/ ReaderErrors(r)
    \/ FetchResolves(r)
    \/ FetchRejects(r)
    \/ JsonResolves(r)
    \/ JsonRejects(r)
    \/ DelayElapses(r)

(***************************************************************************)
(* Spec: gestures arrive at any time, also while runs are suspended        *)
(***************************************************************************)
Next ==
  \/ \E fs \in FewLists : SelectFiles(fs)
  \/ ClearClick
  \/ \E value \in KeyValues : ProcessClick(value)
  \/ RunStep

Spec == Init /\ [][Next]_vars

(***************************************************************************)
(* SpecSeq: the user waits for a run to end before the next gesture, and   *)
(* selects among all the files                                             *)
(***************************************************************************)
Quiet == \A r \in 1..Len(runs) : runs[r].pc \in Ended

NextSeq ==
  \/ Quiet /\ \E fs \in SeqLists : SelectFiles(fs)
  \/ Quiet /\ ClearClick
  \/ Quiet /\ \E value \in KeyValues : ProcessClick(value)
  \/ RunStep

SpecSeq == Init /\ [][NextSeq]_vars

(***************************************************************************)
(* SpecUnit: the user selects one file, out of the files of every kind of  *)
(* response, and processes it, one run after the other; or one function    *)
(* is applied once to an input chosen in the initial state                 *)
(***************************************************************************)
\* the characters of the paths: letters of both cases, a digit, the
\* underscore, the hyphen, both separators and a character outside [\w-]
PathChars == { "a", "B", "1", "_", "-", "/", "\\", "." }

\* the arguments of getCategoryFromPath: no path, and every text of at
\* most MaxPathLen characters
Paths == { Undefined } \cup UNION { [1..n -> PathChars] : n \in 0..MaxPathLen }

\* the labels of a response: with or without text, without score, and
\* with a score of zero, of the threshold, and above it
Labels ==
  [ description : { Str_Cat, Str_Animal, Undefined }, scored : { TRUE },
    score : { 0, ScoreThreshold, ScoreThreshold + 1, 900 } ]
  \cup [ description : { Str_Cat, Str_Animal, Undefined }, scored : { FALSE },
         score : { 0 } ]

LabelLists == UNION { [1..n -> Labels] : n \in 0..MaxLabels }

\* a text of n characters that differ from their neighbours
TextOfLength(n) == [k \in 1..n |-> DigitChars[(k % 10) + 1]]

\* the best-guess texts of a response: none, and one of every length up
\* to MaxExcess characters more than are kept
Descriptions ==
  { Undefined } \cup { TextOfLength(n) : n \in 0..(DescriptionLimit + MaxExcess) }

\* the status texts of a response that is ok, and of one that is not
StatusTexts(ok) == IF ok THEN { Str_OK, EmptyString } ELSE { Str_Forbidden, EmptyString }

\* the read and the request may fail or not, for every kind of body, of
\* error message and of response
FlakyWorlds ==
  { [ WorldOk EXCEPT !.read = { "load", "error" },
                     !.fetch = { "resolve", "reject" },
                     !.json = { j },
                     !.fetchError = [name |-> Str_TypeError, message |-> m],
                     !.ok = ok, !.statusText = s, !.error = e,
                     !.bestGuess = g ] :
      j \in { "valid", "invalid", "null" },
      m \in { Str_FailedToFetch, EmptyString },
      ok \in BOOLEAN,
      s \in { Str_OK, Str_Forbidden, EmptyString },
      e \in { [present |-> FALSE, message |-> Undefined],
              [present |-> TRUE, message |-> Undefined],
              [present |-> TRUE, message |-> Str_denied] },
      g \in { Undefined, Str_guess } }

\* the analysis succeeds, for every list of labels and every best guess
LabelWorlds == { [ WorldOk EXCEPT !.labelAnnotations = ls ] : ls \in LabelLists }
GuessWorlds == { [ WorldOk EXCEPT !.bestGuess = d ] : d \in Descriptions }

\* the file the user selects
UnitFiles ==
  { [ FileOk EXCEPT !.name = << "w" >>, !.world = w ] :
      w \in { v \in FlakyWorlds : v.statusText \in StatusTexts(v.ok) }
             \cup LabelWorlds \cup GuessWorlds }

\* the files given to prepareFiles on its own: image files below, at and
\* above the size limit
GateFiles == { FileOk, FileAtLimit, FileTooBig }

\* what is applied on its own, and to what
Trials ==
  { [ NoTrial EXCEPT !.op = "getCategoryFromPath", !.input = path ] :
      path \in Paths }
  \cup { [ NoTrial EXCEPT !.op = "prepareFiles", !.input = files ] :
           files \in FileLists(GateFiles) \ { << >> } }

InitUnit ==
  /\ images = << >>
  /\ processedData = << >>
  /\ runs = << >>
  /\ alerts = [kind \in AlertKinds |-> 0]
  /\ status = << >>
  /\ nEvents = 0
  /\ trial \in Trials \cup { NoTrial }

\* the first gesture: the selection of one file; of FileOk where
\* prepareFiles is to be applied to a second selection
FirstSelection ==
  /\ nEvents = 0
  /\ \E f \in IF trial.op = "none" THEN UnitFiles
               ELSE IF trial.op = "prepareFiles" THEN { FileOk } ELSE { } :
       SelectFiles(<< f >>)

\* prepareFiles(files) for the chosen files, at any time after the first
\* selection; output keeps what the collections held before
ApplyPrepareFiles ==
  /\ trial.op = "prepareFiles"
  /\ ~trial.applied
  /\ nEvents > 0
  /\ nEvents < MaxEvents
  /\ nEvents' = nEvents + 1
  /\ Becomes(prepareFiles(Cur, trial.input))
  /\ trial' = [ trial EXCEPT !.applied = TRUE,
                             !.output = [ images |-> FileNames(images),
                                          records |-> Len(processedData) ] ]

\* getCategoryFromPath(path) for the chosen path
ApplyGetCategoryFromPath ==
  /\ trial.op = "getCategoryFromPath"
  /\ ~trial.applied
  /\ trial' = [ trial EXCEPT !.applied = TRUE,
                             !.output = getCategoryFromPath(trial.input) ]
  /\ UNCHANGED << images, processedData, runs, alerts, status, nEvents >>

NextUnit ==
  \/ FirstSelection
  \/ Quiet /\ trial.op # "getCategoryFromPath"
           /\ \E value \in KeyValues : ProcessClick(value)
  \/ RunStep
  \/ ApplyPrepareFiles
  \/ ApplyGetCategoryFromPath

SpecUnit == InitUnit /\ [][NextUnit]_vars

(***************************************************************************)
(* Properties                                                              *)
(***************************************************************************)
AllDeterministic(fs) == \A k \in 1..Len(fs) : Deterministic(fs[k])

\* the file of the model that has the given name
FileNamed(name) == CHOOSE f \in SeqFiles \cup FewFiles : f.name = name

\* every file named in the list can be analysed in one way only
AllNamedDeterministic(names) ==
  \A k \in 1..Len(names) : Deterministic(FileNamed(names[k]))

\* the analysis of f returns no error
NotFailing(f) == ~Truthy(analysisOf(f).error)

\* run r is between its start and its end
InProgress(r) == IsRun(r) /\ runs[r].pc \in Suspended

\* this step ends run r
Ends(r) == IsRun(r) /\ runs[r].pc \notin Ended /\ runs'[r].pc \in Ended

\* C1: when a run ends, processedData holds exactly one record for each
\* image whose analysis returns no error and none for the other images, in
\* the order of the images (so that no failing image keeps a later image
\* from being processed).
C1_PartialFailure ==
  [][ \A r \in RunIds :
        (Ends(r) /\ AllDeterministic(images))
          => FileNames(Metas(processedData')) = FileNames(SelectSeq(images, NotFailing))
    ]_vars

\* C2: at most one run is in progress in every reachable state.
C2_SingleRun ==
  Cardinality({ r \in 1..Len(runs) : runs[r].pc \in Suspended }) <= 1

\* C3: while a run is in progress, a step leaves the image collection as it
\* is, and leaves the record collection as it is or appends to it one record
\* of that run.
C3_ExclusiveOwnership ==
  [][ \A r \in RunIds :
        InProgress(r)
          => /\ images' = images
             /\ \/ processedData' = processedData
                \/ /\ Len(processedData') = Len(processedData) + 1
                   /\ SubSeq(processedData', 1, Len(processedData)) = processedData
                   /\ processedData'[Len(processedData')].run = r
    ]_vars

\* this step settles the analysis that run r awaits
Settles(r) == IsRun(r) /\ runs[r].pc \in AwaitVision /\ runs'[r].pc \notin AwaitVision

\* this step moves run r to another index
Advances(r) == IsRun(r) /\ runs'[r].i # runs[r].i

\* the alerts run r raises in this step
NewAlerts(r) == SubSeq(runs'[r].alerts, Len(runs[r].alerts) + 1, Len(runs'[r].alerts))

\* in this step run r raises the alert of the error branch for its item
ErrorAlerted(r) ==
  /\ Len(NewAlerts(r)) >= 1
  /\ NewAlerts(r)[Len(NewAlerts(r))].kind = "processing"
  /\ NewAlerts(r)[Len(NewAlerts(r))].item = runs[r].i

\* in this step run r emits the progress of an item it starts
StartsItem(r) ==
  /\ Len(runs'[r].progress) > Len(runs[r].progress)
  /\ \E k \in (Len(runs[r].progress) + 1)..Len(runs'[r].progress) :
       runs'[r].progress[k].label = "Procesando"

\* in this step run r appends a record
AppendsRecord(r) ==
  /\ Len(processedData') = Len(processedData) + 1
  /\ processedData'[Len(processedData')].run = r

\* C4: a run goes through the items one at a time in index order: it starts
\* an item only by moving from index i to i + 1, which it does only when the
\* metadata of item i is extracted and its analysis settled (the record is
\* built and the delay elapsed, or the error branch taken in this step);
\* the records of a run are appended for its current item and stand in
\* index order.
C4_OneAtATime ==
  [][ \A r \in RunIds :
        /\ (IsRun(r) /\ StartsItem(r)) => Advances(r)
        /\ Advances(r) =>
             /\ runs'[r].i = runs[r].i + 1
             /\ runs[r].meta.name # Undefined
             /\ \/ runs[r].pc = "awaitDelay" /\ runs[r].meta.tags # Undefined
                \/ runs[r].pc \in AwaitVision /\ ErrorAlerted(r)
        /\ (IsRun(r) /\ AppendsRecord(r)) =>
             /\ processedData'[Len(processedData')].item = runs[r].i
             /\ \A k \in 1..Len(processedData) :
                  processedData[k].run = r => processedData[k].item < runs[r].i
    ]_vars

\* a run has got through item 0 with a record and has started item 1
C4_Witness ==
  \E r \in 1..Len(runs) :
    /\ runs[r].i = 1
    /\ runs[r].pc = "awaitMeta"
    /\ \E k \in 1..Len(processedData) :
         processedData[k].run = r /\ processedData[k].item = 0

\* C5: when a run over n images ends, the progress it emitted is the n
\* per-item percentages (k / n) * 100 for k = 1..n, strictly increasing,
\* followed by one last emission, which is 100.
C5_ProgressSequence ==
  [][ \A r \in RunIds :
        Ends(r) =>
          LET p == runs'[r].progress
              n == Len(runs[r].batch)
          IN  /\ Len(p) = n + 1
              /\ \A k \in 1..n :
                   /\ p[k].label = "Procesando"
                   /\ p[k].num * n = k * 100 * p[k].den
              /\ \A k \in 1..(n - 1) :
                   p[k].num * p[k + 1].den < p[k + 1].num * p[k].den
              /\ p[n + 1].label = "completado"
              /\ p[n + 1].num = 100 * p[n + 1].den
    ]_vars

\* C6: a run that is no longer suspended has completed: it left the loop
\* and its last emission is the final progress 100 (no outcome of an item
\* ends a run in any other way).
C6_RunsToCompletion ==
  \A r \in 1..Len(runs) :
    runs[r].pc \notin Suspended =>
      /\ runs[r].pc = "done"
      /\ runs[r].progress[Len(runs[r].progress)].label = "completado"

\* this step shows the message of a handler
Shows(kind) == alerts'[kind] = alerts[kind] + 1

\* C7: no step starts a run when the image collection is empty; a run that
\* starts has a key that is not empty after trimming; a step that shows the
\* message of a rejected process click changes neither the collections,
\* nor the runs, nor the grid.
C7_Preconditions ==
  [][ /\ Len(images) = 0 => Len(runs') = Len(runs)
      /\ Len(runs') > Len(runs) => trim(runs'[Len(runs')].apiKey) # EmptyString
      /\ (Shows("noImages") \/ Shows("noKey"))
           => UNCHANGED << images, processedData, runs, status >>
    ]_vars

\* a click was rejected for want of images, another for want of a key, and
\* no run was started
C7_Witness ==
  /\ alerts["noImages"] >= 1
  /\ alerts["noKey"] >= 1
  /\ Len(images) > 0
  /\ runs = << >>

\* C8: two successive completed runs over the same images, each of which
\* can be analysed in one way only, leave the same sequence of records.
C8_Idempotent ==
  \A r \in 1..(Len(runs) - 1) :
    ( /\ runs[r].pc = "done"
      /\ runs[r + 1].pc = "done"
      /\ runs[r + 1].batch = runs[r].batch
      /\ AllNamedDeterministic(runs[r].batch) )
      => runs[r + 1].records = runs[r].records

\* C9 as claimed: a run moves to the next index only from the delay.
C9_DelayAfterEveryItem ==
  [][ \A r \in RunIds : Advances(r) => runs[r].pc = "awaitDelay" ]_vars

\* C9 as amended: a run that appends a record suspends in the delay, at the
\* same index; it moves to the next index only from the delay, or in the
\* step that takes the error branch for its item, then without any delay.
C9_DelayAfterCompletedItem ==
  [][ \A r \in RunIds :
        /\ (IsRun(r) /\ AppendsRecord(r)) =>
             runs'[r].pc = "awaitDelay" /\ runs'[r].i = runs[r].i
        /\ Advances(r) =>
             \/ runs[r].pc = "awaitDelay"
             \/ runs[r].pc \in AwaitVision /\ ErrorAlerted(r)
        /\ (Settles(r) /\ ErrorAlerted(r)) =>
             Advances(r) /\ runs'[r].pc # "awaitDelay"
    ]_vars

\* a run went past an errored item 0 without the delay and now waits in the
\* delay after the record of item 1
C9_Witness ==
  \E r \in 1..Len(runs) :
    /\ runs[r].pc = "awaitDelay"
    /\ runs[r].i = 1
    /\ \E k \in 1..Len(runs[r].alerts) :
         runs[r].alerts[k].kind = "processing" /\ runs[r].alerts[k].item = 0
    /\ \E k \in 1..Len(processedData) :
         processedData[k].run = r /\ processedData[k].item = 1

\* C10: the step that settles the analysis of an image raises exactly one
\* alert and sets the status of the item to error when the analysis failed,
\* and raises no alert when it did not fail.
C10_OneNotification ==
  [][ \A r \in RunIds :
        (Settles(r) /\ Deterministic(runs[r].file)) =>
          IF NotFailing(runs[r].file)
            THEN Len(NewAlerts(r)) = 0
            ELSE /\ Len(NewAlerts(r)) = 1
                 /\ runs[r].i < Len(status')
                 /\ status'[runs[r].i + 1] = "error"
    ]_vars

\* the call of analyzeVision made by run r completes in this step
Completes(r) == IsRun(r) /\ ~runs[r].vision.settled /\ runs'[r].vision.settled

\* the call of run r that is about to complete does so after a failure: of
\* the read, of the request, of the parsing, or a response that is not ok
\* or carries an error
AfterFailure(r) ==
  \/ runs[r].pc \in { "awaitRead", "awaitFetch" }
  \/ /\ runs[r].pc = "awaitJson"
     /\ \/ runs[r].file.world.json # { "valid" }
        \/ ~runs[r].file.world.ok
        \/ runs[r].file.world.error.present

\* C11: every call of analyzeVision completes by returning a result, never
\* by throwing to processWithVision, and the result returned after a
\* failure of the read, of the request or of the parsing, or for a response
\* that is not ok or carries an error, has an error field.
C11_NeverThrows ==
  [][ \A r \in RunIds :
        Completes(r) =>
          /\ ~runs'[r].vision.threw
          /\ AfterFailure(r) => runs'[r].vision.result.error # Undefined
    ]_vars

\* the body of a response was the JSON null, and the call returned the
\* error of the failed property access
C11_Witness ==
  \E r \in 1..Len(runs) :
    /\ runs[r].file.world.json = { "null" }
    /\ runs[r].requests = 1
    /\ runs[r].vision.settled
    /\ ~runs[r].vision.threw
    /\ runs[r].vision.result.error = catchResult(NullDeref).error

\* C12 as claimed: every call of analyzeVision has issued exactly one
\* request when it completes.
C12_ExactlyOneRequest ==
  [][ \A r \in RunIds : Completes(r) => runs'[r].requests = 1 ]_vars

\* C12 as amended: a call of analyzeVision never issues more than one
\* request; when it completes it has issued exactly one if the encoding
\* succeeded, whatever became of the request, and none if the read failed.
C12_AtMostOneRequest ==
  [][ \A r \in RunIds :
        /\ (IsRun(r) /\ r <= Len(runs')) => runs'[r].requests <= 1
        /\ Completes(r) =>
             runs'[r].requests = IF runs[r].pc = "awaitRead" THEN 0 ELSE 1
    ]_vars

\* a call completed after a failed read, without any request
C12_Witness ==
  \E r \in 1..Len(runs) :
    /\ runs[r].vision.settled
    /\ runs[r].requests = 0
    /\ runs[r].vision.result.error = Str_LecturaFallida

\* this step applies op to the chosen input
Applies(op) == trial.op = op /\ ~trial.applied /\ trial'.applied

\* C13: the step that applies prepareFiles to a set of files leaves no
\* record in processedData, and leaves in images only files of that set:
\* each file of the set that is not above the size limit, once, and no
\* other file.
C13_PrepareFilesResets ==
  [][ Applies("prepareFiles") =>
        /\ processedData' = << >>
        /\ \A k \in 1..Len(images') :
             \E j \in 1..Len(trial.input) : images'[k] = trial.input[j]
        /\ \A j \in 1..Len(trial.input) :
             Cardinality({ k \in 1..Len(images') : images'[k] = trial.input[j] })
               = IF trial.input[j].size > MAX_FILE_SIZE_MB * BytesPerMB
                   THEN 0 ELSE 1
    ]_vars

\* prepareFiles was applied when the collections held an image and its
\* record; now they hold the file of the new set only, and no record
C13_Witness ==
  /\ trial.op = "prepareFiles"
  /\ trial.applied
  /\ trial.input = << FileAtLimit >>
  /\ trial.output.images = << FileOk.name >>
  /\ trial.output.records = 1
  /\ images = << FileAtLimit >>
  /\ processedData = << >>

\* out holds the files of in whose size is at most limit bytes, and only
\* those, in the order they have in in
KeepsUpTo(limit, in, out) ==
  \E pos \in [1..Len(out) -> 1..Len(in)] :
    /\ \A j, k \in 1..Len(out) : j < k => pos[j] < pos[k]
    /\ \A k \in 1..Len(out) : out[k] = in[pos[k]]
    /\ \A k \in 1..Len(in) :
         in[k].size <= limit <=> \E j \in 1..Len(out) : pos[j] = k

\* C14: the step that applies prepareFiles to a list of files leaves in
\* images the files of at most MAX_FILE_SIZE_MB * 1024 * 1024 bytes, a file
\* of exactly that size included, in the order of the list; it shows the
\* warning, once, if and only if a file of the list is larger, and shows
\* nothing else.
C14_SizeGate ==
  [][ Applies("prepareFiles") =>
        /\ KeepsUpTo(MAX_FILE_SIZE_MB * 1024 * 1024, trial.input, images')
        /\ IF \E k \in 1..Len(trial.input) :
                trial.input[k].size > MAX_FILE_SIZE_MB * 1024 * 1024
             THEN alerts' = [ alerts EXCEPT !["oversized"] = @ + 1 ]
             ELSE alerts' = alerts
    ]_vars

\* of a file above the limit and a file at the limit the second was kept,
\* and the warning was shown
C14_Witness ==
  /\ trial.op = "prepareFiles"
  /\ trial.applied
  /\ trial.input = << FileTooBig, FileAtLimit >>
  /\ images = << FileAtLimit >>
  /\ alerts["oversized"] = 1

\* the text stored for the first n labels of a list: the texts, in lower
\* case, of the labels that have a score above the threshold, separated by
\* a comma and a space
RECURSIVE TagText(_, _)
TagText(labels, n) ==
  IF n = 0 THEN << >>
  ELSE IF labels[n].scored /\ labels[n].score > ScoreThreshold
    THEN TagText(labels, n - 1)
           \o (IF \E k \in 1..(n - 1) :
                    labels[k].scored /\ labels[k].score > ScoreThreshold
                 THEN << ",", " " >> ELSE << >>)
           \o [k \in 1..Len(labels[n].description) |->
                 charToLowerCase(labels[n].description[k])]
    ELSE TagText(labels, n - 1)

\* the last record of processedData, and the result run r got
LastRecord == processedData'[Len(processedData')].meta
ResultOf(r) == runs'[r].vision.result

\* C15: the record a run appends for a result without error has as tags
\* the texts of the result's labels whose score is above 0.6 (not 0.6
\* itself, not a label without score), in lower case, in the order of the
\* labels, joined by a comma and a space, between double quotes; and the
\* empty string when no label of the result has such a score.
C15_Tags ==
  [][ \A r \in RunIds :
        (IsRun(r) /\ AppendsRecord(r)) =>
          /\ ResultOf(r).error = Undefined
          /\ LastRecord.tags =
               IF \E k \in 1..Len(ResultOf(r).labels) :
                    /\ ResultOf(r).labels[k].scored
                    /\ ResultOf(r).labels[k].score > ScoreThreshold
                 THEN << "\"" >>
                        \o TagText(ResultOf(r).labels, Len(ResultOf(r).labels))
                        \o << "\"" >>
                 ELSE EmptyString
    ]_vars

\* of a label above the threshold and a label exactly at the threshold the
\* record has the first only
C15_Witness ==
  \E r \in 1..Len(runs) :
    /\ runs[r].vision.result.labels =
         << [description |-> Str_Cat, scored |-> TRUE, score |-> ScoreThreshold + 1],
            [description |-> Str_Animal, scored |-> TRUE, score |-> ScoreThreshold] >>
    /\ Len(processedData) = 1
    /\ processedData[1].run = r
    /\ processedData[1].meta.tags = << "\"", "c", "a", "t", "\"" >>

\* C16: for every path, getCategoryFromPath returns a value: where the
\* path has a separator, / or \, and the text between the last separator
\* and the one before it (or the start of the path) has at least one
\* character and only letters, digits, underscores and hyphens, that text
\* in lower case; the empty string for every other path, and for no path.
C16_CategoryFromPath ==
  (trial.op = "getCategoryFromPath" /\ trial.applied) =>
    LET path == trial.input
        seps == { k \in 1..Len(path) : path[k] \in { "/", "\\" } }
    IN  IF path = Undefined \/ seps = { }
          THEN trial.output = EmptyString
          ELSE LET last == CHOOSE k \in seps : \A j \in seps : j <= k
                   before == { k \in seps : k < last }
                   prev == IF before = { } THEN 0
                           ELSE CHOOSE k \in before : \A j \in before : j <= k
                   segment == SubSeq(path, prev + 1, last - 1)
               IN  IF /\ Len(segment) >= 1
                      /\ \A k \in 1..Len(segment) :
                           segment[k] \in WordChars \cup { "-" }
                     THEN /\ Len(trial.output) = Len(segment)
                          /\ \A k \in 1..Len(segment) :
                               trial.output[k] = charToLowerCase(segment[k])
                     ELSE trial.output = EmptyString

\* a folder name with an upper-case letter and a hyphen, before a
\* backslash and a file name
C16_Witness ==
  /\ trial.op = "getCategoryFromPath"
  /\ trial.applied
  /\ trial.input = << "B", "-", "\\", "a" >>
  /\ trial.output = << "b", "-" >>

\* C17: a result of analyzeVision that has an error field has no label and
\* an empty description; a result without error field has the labels of
\* the response, in their order, and the best-guess text of the response,
\* or the empty string when the response has none.
C17_ResultShape ==
  [][ \A r \in RunIds :
        (Completes(r) /\ ~runs'[r].vision.threw) =>
          IF ResultOf(r).error # Undefined
            THEN /\ ResultOf(r).labels = << >>
                 /\ ResultOf(r).description = EmptyString
            ELSE /\ ResultOf(r).labels = runs[r].file.world.labelAnnotations
                 /\ ResultOf(r).description =
                      IF runs[r].file.world.bestGuess = Undefined
                        THEN EmptyString
                        ELSE runs[r].file.world.bestGuess
    ]_vars

\* a response that is not ok, without status text and without error
\* message, and with labels: the error result has none
C17_Witness ==
  \E r \in 1..Len(runs) :
    /\ runs[r].vision.settled
    /\ runs[r].requests = 1
    /\ runs[r].file.world.json = { "valid" }
    /\ runs[r].file.world.labelAnnotations # << >>
    /\ runs[r].file.world.bestGuess # Undefined
    /\ runs[r].vision.result.error = Str_API \o Str_Desconocido
    /\ runs[r].vision.result.labels = << >>
    /\ runs[r].vision.result.description = EmptyString

\* C18: the description of the record a run appends is the description of
\* the result when that has at most 100 characters, its first 100
\* characters when it has more, and so the empty string when it is empty.
C18_Description ==
  [][ \A r \in RunIds :
        (IsRun(r) /\ AppendsRecord(r)) =>
          LET d == ResultOf(r).description
          IN  IF Len(d) <= 100
                THEN LastRecord.description = d
                ELSE /\ Len(LastRecord.description) = 100
                     /\ \A k \in 1..100 : LastRecord.description[k] = d[k]
    ]_vars

\* a best guess of more than 100 characters was stored as 100 characters
C18_Witness ==
  \E r \in 1..Len(runs) :
    /\ Len(runs[r].vision.result.description) > 100
    /\ Len(processedData) = 1
    /\ processedData[1].run = r
    /\ Len(processedData[1].meta.description) = 100

\* C19: the records of processedData are records of images of the current
\* image collection, at most one for each image.
C19_RecordsOfCurrentImages ==
  /\ Len(processedData) <= Len(images)
  /\ \A k \in 1..Len(processedData) :
       \E j \in 1..Len(images) : images[j].name = processedData[k].meta.name
  /\ \A j, k \in 1..Len(processedData) :
       j # k => processedData[j].meta.name # processedData[k].meta.name

\* C20: the result analyzeVision returns after a failure has as error a
\* string that is not empty; the step that gets it takes the error branch
\* for the item and appends no record.
C20_ErrorTruthy ==
  [][ \A r \in RunIds :
        (Completes(r) /\ AfterFailure(r)) =>
          /\ ResultOf(r).error # Undefined
          /\ Len(ResultOf(r).error) >= 1
          /\ ErrorAlerted(r)
          /\ processedData' = processedData
    ]_vars

\* fetch rejected with an error without message: the error of the result
\* is the name of the error, and no record was appended
C20_Witness ==
  \E r \in 1..Len(runs) :
    /\ runs[r].file.world.fetchError.message = EmptyString
    /\ runs[r].vision.settled
    /\ runs[r].requests = 1
    /\ runs[r].vision.result.error = Str_TypeError
    /\ \E k \in 1..Len(runs[r].alerts) : runs[r].alerts[k].kind = "processing"
    /\ processedData = << >>

====
